---------------------------- MODULE Spec2Model ----------------------------
(***************************************************************************)
(* A model of the commit-log storage primitives of thomhuang/proglog:      *)
(*   - the record store (store.go: newStore, Append, Read, ReadAt, Close), *)
(*     a length-prefixed append-only file behind a bufio.Writer and a      *)
(*     mutex, used by concurrent callers;                                  *)
(*   - the offset index (index.go: newIndex, Write, Read, Close), a file   *)
(*     of 12-byte entries accessed through a memory map.                   *)
(* Bytes are modelled as numbers 0..255 and files as sequences of bytes,   *)
(* so the big-endian encodings are computed, not assumed.                  *)
(***************************************************************************)
EXTENDS Integers, Sequences, FiniteSets, TLC

(***************************************************************************)
(* Bounds of the model.                                                    *)
(***************************************************************************)
\* c.Segment.MaxIndexBytes: the capacity of the index file in bytes.  The
\* test uses 1024 = 85 * 12 + 4; 40 = 3 * 12 + 4 keeps the same shape.
MaxIndexBytes == 40
\* How many injected failures (I/O errors, process exits) one behaviour of
\* the index may contain.
MaxIndexFaults == 1
\* Concurrent callers of one store, index or log.
NumProcs == 2
\* Calls started in one behaviour.
MaxCalls == 3
\* The size of the bufio.Writer's buffer (4096 in bufio, scaled down so that
\* frames straddle the buffer's edge).
BufCap == 12

Procs == 1..NumProcs

(***************************************************************************)
(* Program constants.                                                      *)
(***************************************************************************)
lenWidth == 8
offWidth == 4
posWidth == 8
totWidth == offWidth + posWidth

(***************************************************************************)
(* Bytes and the big-endian encoding (enc = binary.BigEndian).             *)
(* Values that are written are naturals below 2^31; what is decoded from   *)
(* a file may be any 4 or 8 bytes.  A decoded value of 2^31 or more is     *)
(* reported as Huge.                                                       *)
(***************************************************************************)
Byte == 0..255
Huge == 0 - 1

Zeros(n) == [i \in 1..n |-> 0]

PutUint32(v) ==
    << (v \div 16777216) % 256, (v \div 65536) % 256, (v \div 256) % 256, v % 256 >>

PutUint64(v) == << 0, 0, 0, 0 >> \o PutUint32(v)

Uint32(b) ==
    IF b[1] >= 128 THEN Huge
    ELSE b[1] * 16777216 + b[2] * 65536 + b[3] * 256 + b[4]

Uint64(b) ==
    IF b[1] # 0 \/ b[2] # 0 \/ b[3] # 0 \/ b[4] # 0 THEN Huge
    ELSE Uint32(SubSeq(b, 5, 8))

(***************************************************************************)
(* 64-bit unsigned arithmetic on 8 big-endian bytes, for the values that   *)
(* do not fit a model integer: index.Read takes an int64 and converts it   *)
(* with uint32(in), then multiplies by totWidth as a uint64.               *)
(***************************************************************************)
RECURSIVE MulAddFrom(_, _, _, _)
MulAddFrom(b, m, carry, i) ==
    IF i = 0 THEN << >>
    ELSE LET t == b[i] * m + carry
         IN  MulAddFrom(b, m, t \div 256, i - 1) \o << t % 256 >>

\* (b * m + a) mod 2^64 for an 8-byte b and small m, a.
MulAdd64(b, m, a) == MulAddFrom(b, m, a, 8)

RECURSIVE LessFrom(_, _, _)
LessFrom(a, b, i) ==
    IF i > Len(a) THEN FALSE
    ELSE IF a[i] # b[i] THEN a[i] < b[i]
    ELSE LessFrom(a, b, i + 1)

\* a < b for two unsigned values of the same width.
Less64(a, b) == LessFrom(a, b, 1)

\* int64 values as 8 bytes in two's complement.
I64(v) == IF v >= 0 THEN PutUint64(v)
          ELSE MulAdd64([i \in 1..8 |-> 255 - PutUint64(-v)[i]], 1, 1)

MinusOne == I64(-1)
\* uint32(in): the low 32 bits of an int64.
ToUint32(in) == SubSeq(in, 5, 8)

(***************************************************************************)
(* State.                                                                  *)
(***************************************************************************)
VARIABLES
    \* ---- the index (index.go) ----
    ifile,      \* the bytes of the index file; the MAP_SHARED mapping i.mmap
                \* is its first mmapLen bytes
    isize,      \* i.size
    mmapLen,    \* len(i.mmap)
    istate,     \* "none": no instance yet, "open", "closed": Close returned
                \* nil or closed the file
    ilast,      \* what happened to the file before the current instance:
                \* "fresh", "close_nil", "close_err", "open_err", "crash"
    opened,     \* how the current instance was opened (ilast and the file
                \* length newIndex found)
    entries,    \* the (off, pos) pairs Write has stored in the file, in order
    iread,      \* the last Read of the current state: argument and result
    iwrite,     \* the last Write: arguments, result, size and file before it
    iclose,     \* the last Close: result and the steps it performed
    ifaults,    \* injected failures so far
    ipc,        \* where each concurrent caller of the index is in its call
    iloc,       \* each concurrent caller's arguments and local variables
    icalls      \* calls concurrent callers have started so far

\* The state of the concurrent callers of the index.
cvars == << ipc, iloc, icalls >>

ivars == << ifile, isize, mmapLen, istate, ilast, opened, entries, iread,
            iwrite, iclose, ifaults, ipc, iloc, icalls >>

(***************************************************************************)
(* The index.                                                              *)
(***************************************************************************)
\* os.Truncate / File.Truncate: cut the file, or extend it with zero bytes.
Truncate(f, n) == IF n <= Len(f) THEN SubSeq(f, 1, n)
                  ELSE f \o Zeros(n - Len(f))

\* Seeded fault: the sentinel resolves to size / totWidth, one past the last.
LastEntry32OffByOne(size) == PutUint32(size \div totWidth)

\* uint32((i.size / totWidth) - 1)
LastEntry32(size) ==
    IF size \div totWidth = 0 THEN << 255, 255, 255, 255 >>
    ELSE PutUint32((size \div totWidth) - 1)

\* Which entry Read decodes for its argument: the sentinel -1 means the last.
ReadEntry32(size, in) == IF in = MinusOne THEN LastEntry32(size) ELSE ToUint32(in)

\* Seeded fault: the empty index reports no error.
EmptyIndexNoError == [out |-> 0, pos |-> 0, err |-> "nil"]

\* A Read of an index that holds nothing: return 0, 0, io.EOF.
EmptyIndexResult == [out |-> 0, pos |-> 0, err |-> "EOF"]

\* A Read past the last entry: return 0, 0, io.EOF.
PastEndResult == [out |-> 0, pos |-> 0, err |-> "EOF"]

\* index.Read on an index of the given size over the mapped bytes m.
IndexRead(size, m, in) ==
    IF size = 0 THEN EmptyIndexResult
    ELSE LET out32 == ReadEntry32(size, in)
             p     == MulAdd64(Zeros(4) \o out32, totWidth, 0)
             e     == MulAdd64(p, 1, totWidth)
         IN  IF Less64(PutUint64(size), e) THEN PastEndResult
             ELSE LET q == Uint64(p)
                  IN  IF q + totWidth > Len(m)
                      THEN [out |-> 0, pos |-> 0, err |-> "panic"]
                      ELSE [out |-> Uint32(SubSeq(m, q + 1, q + offWidth)),
                            pos |-> Uint64(SubSeq(m, q + offWidth + 1, q + totWidth)),
                            err |-> "nil"]

\* Seeded fault: the capacity check forgets the width of the new entry.
IndexFullNoWidth(size, mlen) == mlen < size

\* Write's capacity check: uint64(len(i.mmap)) < i.size + totWidth.
IndexFull(size, mlen) == mlen < size + totWidth

\* Seeded fault: the entry is stored in little-endian byte order.
EntryBytesLittleEndian(off, pos) ==
    LET a == PutUint32(off)
        b == PutUint64(pos)
    IN  [k \in 1..offWidth |-> a[offWidth + 1 - k]]
          \o [k \in 1..posWidth |-> b[posWidth + 1 - k]]

\* The bytes of one entry: enc.PutUint32(off) then enc.PutUint64(pos).
EntryBytes(off, pos) == PutUint32(off) \o PutUint64(pos)

\* The file after Write has stored an entry at byte `size` of the mapping.
PutEntry(f, size, off, pos) ==
    LET b == EntryBytes(off, pos)
    IN  [k \in 1..Len(f) |->
            IF k > size /\ k <= size + totWidth THEN b[k - size] ELSE f[k]]

NoRead  == [in |-> << >>, out |-> 0, pos |-> 0, err |-> "none"]
NoWrite == [off |-> 0, pos |-> 0, err |-> "none", size |-> 0, file |-> << >>]
NoClose == [err |-> "none", truncated |-> FALSE, fileClosed |-> FALSE, size |-> 0]

NoILoc == [off |-> 0, pos |-> 0, in |-> << >>, sz |-> 0, p |-> 0, out |-> 0,
           todo |-> { }]

IInit ==
    /\ ipc = [c \in Procs |-> "idle"]
    /\ iloc = [c \in Procs |-> NoILoc]
    /\ icalls = 0
    /\ ifile = << >>
    /\ isize = 0
    /\ mmapLen = 0
    /\ istate = "none"
    /\ ilast = "fresh"
    /\ opened = [after |-> "fresh", found |-> 0]
    /\ entries = << >>
    /\ iread = NoRead
    /\ iwrite = NoWrite
    /\ iclose = NoClose
    /\ ifaults = 0

OpenFaults == {"none", "stat", "truncate", "map"}

\* newIndex(f, c) on the file, with c.Segment.MaxIndexBytes = max.
NewIndexMax(fault, max) ==
    /\ istate # "open"
    /\ fault # "none" => ifaults < MaxIndexFaults
    /\ ifaults' = IF fault = "none" THEN ifaults ELSE ifaults + 1
    /\ iread' = NoRead /\ iwrite' = NoWrite /\ iclose' = NoClose
    /\ UNCHANGED entries
    /\ IF fault \in {"stat", "truncate"}
       THEN /\ ilast' = "open_err"
            /\ UNCHANGED << ifile, isize, mmapLen, istate, opened >>
       ELSE IF fault = "map"
       THEN /\ ifile' = Truncate(ifile, max)
            /\ ilast' = "open_err"
            /\ UNCHANGED << isize, mmapLen, istate, opened >>
       ELSE /\ isize' = Len(ifile)
            /\ ifile' = Truncate(ifile, max)
            /\ mmapLen' = max
            /\ istate' = "open"
            /\ opened' = [after |-> ilast, found |-> Len(ifile)]
            /\ UNCHANGED ilast

\* newIndex(f, c) with c.Segment.MaxIndexBytes = MaxIndexBytes.
NewIndex(fault) == NewIndexMax(fault, MaxIndexBytes)

\* The values of c.Segment.MaxIndexBytes an index is reopened with: the same
\* as before, and one that is two entries smaller.
MaxBytesChoices == { MaxIndexBytes, MaxIndexBytes - 2 * totWidth }

\* The process exits without calling Close: the mapping is MAP_SHARED, so
\* the file keeps what was written through it, and keeps its length.
IndexCrash ==
    /\ istate = "open"
    /\ ifaults < MaxIndexFaults
    /\ ifaults' = ifaults + 1
    /\ istate' = "closed"
    /\ ilast' = "crash"
    /\ iread' = NoRead /\ iwrite' = NoWrite /\ iclose' = NoClose
    /\ UNCHANGED << ifile, isize, mmapLen, opened, entries >>

\* The (off, pos) pairs callers write: the test's two entries, and pairs
\* whose fields need more than one byte.
WriteArgs == { << 0, 0 >>, << 1, 10 >>, << 2, 70000 >>, << 258, 300 >> }

\* index.Write(off, pos)
IndexWrite(off, pos) ==
    /\ istate = "open"
    /\ iread' = NoRead /\ iclose' = NoClose
    /\ IF IndexFull(isize, mmapLen)
       THEN /\ iwrite' = [off |-> off, pos |-> pos, err |-> "EOF",
                          size |-> isize, file |-> ifile]
            /\ UNCHANGED << ifile, isize, entries >>
       ELSE /\ ifile' = PutEntry(ifile, isize, off, pos)
            /\ isize' = isize + totWidth
            /\ entries' = Append(entries, [off |-> off, pos |-> pos])
            /\ iwrite' = [off |-> off, pos |-> pos, err |-> "nil",
                          size |-> isize, file |-> ifile]
    /\ UNCHANGED << mmapLen, istate, ilast, opened, ifaults >>

\* The int64 arguments callers read with.
Two32    == << 0, 0, 0, 1, 0, 0, 0, 0 >>
MaxInt64 == << 127, 255, 255, 255, 255, 255, 255, 255 >>
MinInt64 == << 128, 0, 0, 0, 0, 0, 0, 0 >>
ReadArgs ==
    {I64(v) : v \in -2..((MaxIndexBytes \div totWidth) + 1)}
      \cup {Two32, MulAdd64(Two32, 1, 1), MaxInt64, MinInt64}

\* index.Read(in)
IndexReadOp(in) ==
    /\ istate = "open"
    /\ LET r == IndexRead(isize, SubSeq(ifile, 1, mmapLen), in)
       IN  iread' = [in |-> in, out |-> r.out, pos |-> r.pos, err |-> r.err]
    /\ iwrite' = NoWrite /\ iclose' = NoClose
    /\ UNCHANGED << ifile, isize, mmapLen, istate, ilast, opened, entries,
                    ifaults >>

CloseFaults == {"none", "msync", "fsync", "truncate", "close"}

\* What Close returns when the given step fails.
CloseResult(fault) ==
    IF fault \in {"msync", "fsync", "close"} THEN "EIO" ELSE "nil"

\* index.Close()
IndexClose(fault) ==
    /\ istate = "open"
    /\ fault # "none" => ifaults < MaxIndexFaults
    /\ ifaults' = IF fault = "none" THEN ifaults ELSE ifaults + 1
    /\ iread' = NoRead /\ iwrite' = NoWrite
    /\ iclose' = [err |-> CloseResult(fault),
                  truncated |-> fault \in {"none", "close"},
                  fileClosed |-> fault \in {"none", "close"},
                  size |-> isize]
    /\ ifile' = IF fault \in {"none", "close"} THEN Truncate(ifile, isize) ELSE ifile
    /\ istate' = IF fault \in {"msync", "fsync"} THEN "open" ELSE "closed"
    /\ ilast' = IF CloseResult(fault) = "nil" THEN "close_nil" ELSE "close_err"
    /\ UNCHANGED << isize, mmapLen, opened, entries >>

(***************************************************************************)
(* The index under concurrent callers.  Write and Read take no lock, so the *)
(* statements of concurrent calls interleave, and nothing orders the three *)
(* stores of a Write (the offset bytes, the position bytes, i.size) for    *)
(* another goroutine: they become visible in any order.                    *)
(***************************************************************************)
\* The (off, pos) pairs concurrent callers write.
ConcWriteArgs == { << 1, 10 >>, << 258, 300 >> }

\* The mapped file after the bytes b have been stored at byte `at`.
PutBytes(f, at, b) ==
    [k \in 1..Len(f) |-> IF k > at /\ k <= at + Len(b) THEN b[k - at] ELSE f[k]]

\* The stores of a Write that can become visible next.
NextStores(todo) == todo

\* A caller calls Write(off, pos).
CWriteCall(c, off, pos) ==
    /\ istate = "open"
    /\ ipc[c] = "idle"
    /\ icalls < MaxCalls
    /\ icalls' = icalls + 1
    /\ ipc' = [ipc EXCEPT ![c] = "w_check"]
    /\ iloc' = [iloc EXCEPT ![c] = [NoILoc EXCEPT !.off = off, !.pos = pos]]
    /\ iread' = NoRead /\ iwrite' = NoWrite
    /\ UNCHANGED << ifile, isize, mmapLen, istate, ilast, opened, entries, iclose,
                    ifaults >>

\* Write, lines 108-110: the capacity check, on the i.size the caller reads.
CWriteCheck(c) ==
    /\ ipc[c] = "w_check"
    /\ iread' = NoRead
    /\ IF IndexFull(isize, mmapLen)
       THEN /\ ipc' = [ipc EXCEPT ![c] = "idle"]
            /\ iloc' = [iloc EXCEPT ![c] = NoILoc]
            /\ iwrite' = [off |-> iloc[c].off, pos |-> iloc[c].pos, err |-> "EOF",
                          size |-> isize, file |-> << >>]
       ELSE /\ ipc' = [ipc EXCEPT ![c] = "w_store"]
            /\ iloc' = [iloc EXCEPT ![c].sz = isize,
                                    ![c].todo = {"off", "pos", "size"}]
            /\ iwrite' = NoWrite
    /\ UNCHANGED << ifile, isize, mmapLen, istate, ilast, opened, entries, iclose,
                    ifaults, icalls >>

\* Write, lines 112-115: one of the three stores becomes visible; with the
\* last of them the call returns nil.
CWriteStore(c, e) ==
    /\ ipc[c] = "w_store"
    /\ e \in NextStores(iloc[c].todo)
    /\ ifile' = IF e = "off"
                THEN PutBytes(ifile, iloc[c].sz, PutUint32(iloc[c].off))
                ELSE IF e = "pos"
                THEN PutBytes(ifile, iloc[c].sz + offWidth, PutUint64(iloc[c].pos))
                ELSE ifile
    /\ isize' = IF e = "size" THEN iloc[c].sz + totWidth ELSE isize
    /\ iread' = NoRead
    /\ IF iloc[c].todo = {e}
       THEN /\ ipc' = [ipc EXCEPT ![c] = "idle"]
            /\ iloc' = [iloc EXCEPT ![c] = NoILoc]
            /\ entries' = Append(entries, [off |-> iloc[c].off, pos |-> iloc[c].pos])
            /\ iwrite' = [off |-> iloc[c].off, pos |-> iloc[c].pos, err |-> "nil",
                          size |-> iloc[c].sz, file |-> << >>]
       ELSE /\ iloc' = [iloc EXCEPT ![c].todo = iloc[c].todo \ {e}]
            /\ iwrite' = NoWrite
            /\ UNCHANGED << ipc, entries >>
    /\ UNCHANGED << mmapLen, istate, ilast, opened, iclose, ifaults, icalls >>

\* The arguments concurrent callers read with.
ConcReadArgs == { MinusOne, I64(0), I64(1) }

\* pos = uint64(out) * totWidth, for the entry Read resolves its argument to.
ReadPos(size, in) == Uint64(MulAdd64(Zeros(4) \o ReadEntry32(size, in), totWidth, 0))

\* A caller calls Read(in).
CReadCall(c, in) ==
    /\ istate = "open"
    /\ ipc[c] = "idle"
    /\ icalls < MaxCalls
    /\ icalls' = icalls + 1
    /\ ipc' = [ipc EXCEPT ![c] = "r_check"]
    /\ iloc' = [iloc EXCEPT ![c] = [NoILoc EXCEPT !.in = in]]
    /\ iread' = NoRead /\ iwrite' = NoWrite
    /\ UNCHANGED << ifile, isize, mmapLen, istate, ilast, opened, entries, iclose,
                    ifaults >>

\* Read, lines 85-98: the checks against the i.size the caller reads.
CReadCheck(c) ==
    /\ ipc[c] = "r_check"
    /\ iwrite' = NoWrite
    /\ LET r == IndexRead(isize, SubSeq(ifile, 1, mmapLen), iloc[c].in)
       IN  IF r.err # "nil"
           THEN /\ ipc' = [ipc EXCEPT ![c] = "idle"]
                /\ iloc' = [iloc EXCEPT ![c] = NoILoc]
                /\ iread' = [in |-> iloc[c].in, out |-> 0, pos |-> 0, err |-> r.err]
           ELSE /\ ipc' = [ipc EXCEPT ![c] = "r_off"]
                /\ iloc' = [iloc EXCEPT ![c].p = ReadPos(isize, iloc[c].in)]
                /\ iread' = NoRead
    /\ UNCHANGED << ifile, isize, mmapLen, istate, ilast, opened, entries, iclose,
                    ifaults, icalls >>

\* Read, line 100: out = enc.Uint32(i.mmap[pos : pos+offWidth]).
CReadOff(c) ==
    /\ ipc[c] = "r_off"
    /\ ipc' = [ipc EXCEPT ![c] = "r_pos"]
    /\ iloc' = [iloc EXCEPT ![c].out =
                    Uint32(SubSeq(ifile, iloc[c].p + 1, iloc[c].p + offWidth))]
    /\ iread' = NoRead /\ iwrite' = NoWrite
    /\ UNCHANGED << ifile, isize, mmapLen, istate, ilast, opened, entries, iclose,
                    ifaults, icalls >>

\* Read, lines 101-102: pos = enc.Uint64(...), and the return.
CReadPos(c) ==
    /\ ipc[c] = "r_pos"
    /\ ipc' = [ipc EXCEPT ![c] = "idle"]
    /\ iloc' = [iloc EXCEPT ![c] = NoILoc]
    /\ iread' = [in |-> iloc[c].in, out |-> iloc[c].out,
                 pos |-> Uint64(SubSeq(ifile, iloc[c].p + offWidth + 1,
                                       iloc[c].p + totWidth)),
                 err |-> "nil"]
    /\ iwrite' = NoWrite
    /\ UNCHANGED << ifile, isize, mmapLen, istate, ilast, opened, entries, iclose,
                    ifaults, icalls >>

(***************************************************************************)
(* The store (store.go).                                                   *)
(***************************************************************************)
VARIABLES
    sfile,      \* the bytes of the store file on disk
    sbuf,       \* s.buf: the bytes buffered and not yet written to the file
    sbufErr,    \* s.buf's sticky error: "nil", "EIO" or "ErrClosed"
    ssize,      \* s.size
    sstate,     \* "none": no store yet, "open": newStore has returned a store
    sclosed,    \* the file handle has been closed (File.Close)
    mu,         \* s.mu: 0 when free, else the caller holding it
    pc,         \* where each caller is in its call
    loc,        \* each caller's arguments and local variables
    ret,        \* what the call that returned in the last step returned
    appended,   \* the successful Appends in the order they returned
    started,    \* (pos, payload) of every Append that has taken its position
    sinit,      \* the size the first newStore on the file recovered
    ncalls,     \* calls started so far
    sgen        \* how many stores have been opened on the file, one at a time

svars == << sfile, sbuf, sbufErr, ssize, sstate, sclosed, mu, pc, loc, ret,
            appended, started, sinit, ncalls, sgen >>

VARIABLES
    lrecords,   \* c.records of the server Log
    lmu,        \* c.mu: 0 when free, else the caller holding it
    lpc,        \* where each caller of the Log is in its call
    lloc,       \* each caller's arguments and local variables
    lret,       \* what the Log call that returned in the last step returned
    ldone,      \* the Appends that have returned: value and offset returned
    lcalls      \* Log calls started so far

lvars == << lrecords, lmu, lpc, lloc, lret, ldone, lcalls >>

vars == << ivars, svars, lvars >>

\* One frame of the store file: the 8-byte length, then the payload.
Frame(p) == PutUint64(Len(p)) \o p

\* The payloads callers append.
Payloads == { << >>, << 7 >>, << 7, 9, 11 >> }

\* Where File.Write puts its bytes.  The segment that owns the store opens
\* the file append-only, so every write lands at the end of the file.
FileOffset(file) == Len(file)

\* The file after b has been written at byte offset off.
WriteAt(file, off, b) ==
    SubSeq(file, 1, off) \o b \o SubSeq(file, off + Len(b) + 1, Len(file))

\* What happens to the first write to the file that a call makes: it
\* succeeds, or it fails having written nothing, or having written all but
\* the last byte.  (No call of the model writes to the file twice.)
FaultPlans == {"ok", "fail_nothing", "fail_most"}

\* File.Write of b, after nw writes to the file in this call: appends b, or
\* fails on a closed file, or fails as the plan says.
OsWrite(file, b, closed, plan, nw) ==
    IF closed THEN [file |-> file, n |-> 0, err |-> "ErrClosed"]
    ELSE IF plan # "ok" /\ nw = 0
    THEN LET k == IF plan = "fail_nothing" THEN 0 ELSE Len(b) - 1
         IN  [file |-> WriteAt(file, FileOffset(file), SubSeq(b, 1, k)),
              n |-> k, err |-> "EIO"]
    ELSE [file |-> WriteAt(file, FileOffset(file), b), n |-> Len(b), err |-> "nil"]

\* The buffered writer and its file as one value.
Writer == [file |-> sfile, buf |-> sbuf, err |-> sbufErr, nw |-> 0, closed |-> sclosed]

\* s.buf.Flush()
Flush(w, plan) ==
    IF w.err # "nil" THEN w
    ELSE IF Len(w.buf) = 0 THEN w
    ELSE LET r == OsWrite(w.file, w.buf, w.closed, plan, w.nw)
         IN  [w EXCEPT !.file = r.file,
                       !.buf  = SubSeq(w.buf, r.n + 1, Len(w.buf)),
                       !.err  = r.err,
                       !.nw   = w.nw + 1]

\* s.buf.Write(p): the loop that empties the buffer while p does not fit,
\* then the copy of what is left of p.
RECURSIVE BufWriteLoop(_, _, _, _)
BufWriteLoop(w, p, nn, plan) ==
    IF Len(p) > BufCap - Len(w.buf) /\ w.err = "nil"
    THEN IF Len(w.buf) = 0
         THEN LET r == OsWrite(w.file, p, w.closed, plan, w.nw)
                  w2 == [w EXCEPT !.file = r.file, !.err = r.err, !.nw = w.nw + 1]
              IN  BufWriteLoop(w2, SubSeq(p, r.n + 1, Len(p)), nn + r.n, plan)
         ELSE LET n  == BufCap - Len(w.buf)
                  w1 == [w EXCEPT !.buf = w.buf \o SubSeq(p, 1, n)]
              IN  BufWriteLoop(Flush(w1, plan), SubSeq(p, n + 1, Len(p)), nn + n, plan)
    ELSE IF w.err # "nil" THEN [w |-> w, nn |-> nn, err |-> w.err]
    ELSE [w |-> [w EXCEPT !.buf = w.buf \o p], nn |-> nn + Len(p), err |-> "nil"]

BufWrite(w, p, plan) == BufWriteLoop(w, p, 0, plan)

\* File.ReadAt(b, off) with len(b) = n.
FileReadAt(file, closed, n, off) ==
    IF n = 0 THEN [data |-> << >>, err |-> "nil"]
    ELSE IF closed THEN [data |-> << >>, err |-> "ErrClosed"]
    ELSE IF off + n <= Len(file)
    THEN [data |-> SubSeq(file, off + 1, off + n), err |-> "nil"]
    ELSE [data |-> SubSeq(file, off + 1, Len(file)), err |-> "EOF"]

\* The two reads of store.Read at pos, after the flush.  make([]byte, n)
\* panics (makeslice: len out of range) for a length beyond what can be
\* allocated; every length of 2^31 or more the model meets is of that kind.
ReadFrame(file, closed, pos) ==
    LET hdr == FileReadAt(file, closed, lenWidth, pos)
    IN  IF hdr.err # "nil" THEN [data |-> << >>, err |-> hdr.err]
        ELSE LET n == Uint64(hdr.data)
             IN  IF n = Huge THEN [data |-> << >>, err |-> "panic"]
                 ELSE LET b == FileReadAt(file, closed, n, pos + lenWidth)
                      IN  IF b.err # "nil" THEN [data |-> << >>, err |-> b.err]
                          ELSE [data |-> b.data, err |-> "nil"]

\* Seeded fault: Lock lets a caller in while another holds the mutex.
LockAlwaysFree(c) == TRUE

\* s.mu.Lock() can return for caller c.
CanLock(c) == mu = 0

\* Seeded fault: Append forgets the length prefix in its byte count.
AppendCountNoPrefix(w) == w

\* w += lenWidth
AppendCount(w) == w + lenWidth

\* Seeded fault: Read does not flush the buffer before it reads the file.
ReadFlushSkipped(w, plan) == w

\* The flush at the start of Read.
ReadFlush(w, plan) == Flush(w, plan)

NoRet == [op |-> "none", p |-> << >>, pos |-> 0, n |-> 0, data |-> << >>,
          err |-> "nil", seen |-> 0, flen |-> 0, during |-> FALSE]
NoLoc == [p |-> << >>, pos |-> 0, n |-> 0, during |-> FALSE]

\* The store files a store is opened on: a new file, or one frame of an
\* earlier run.
InitFiles == { << >>, Frame(<< 5 >>) }

\* The state before newStore, on one of the given files.
SInitOn(files) ==
    /\ sfile \in files
    /\ sbuf = << >>
    /\ sbufErr = "nil"
    /\ ssize = 0
    /\ sstate = "none"
    /\ sclosed = FALSE
    /\ mu = 0
    /\ pc = [c \in Procs |-> "idle"]
    /\ loc = [c \in Procs |-> NoLoc]
    /\ ret = NoRet
    /\ appended = << >>
    /\ started = { }
    /\ sinit = 0
    /\ ncalls = 0
    /\ sgen = 0

SInit == SInitOn(InitFiles)

\* Seeded fault: newStore starts every store at size 0.
RecoveredSizeZero(file) == 0

\* size := uint64(file.Size())
RecoveredSize(file) == Len(file)

\* newStore(f): the size is the file's length.
NewStore ==
    /\ sstate = "none"
    /\ sstate' = "open"
    /\ ssize' = RecoveredSize(sfile)
    /\ sinit' = RecoveredSize(sfile)
    /\ sbuf' = << >> /\ sbufErr' = "nil"
    /\ UNCHANGED << sfile, sclosed, mu, pc, loc, ret, appended, started, ncalls >>

\* A caller may start a call.
CanCall(c) ==
    /\ sstate = "open"
    /\ pc[c] = "idle"
    /\ ncalls < MaxCalls

\* Some caller is inside Append: it has taken a position and not returned.
InAppend == \E d \in Procs : pc[d] \in {"append_len", "append_payload"}

\* Caller c calls an operation: it arrives at s.mu.Lock().  `during` notes
\* that another caller was inside Append at that moment.  The arguments of
\* the call play no part until the lock is taken, and are drawn then.
Call(c, lockpc) ==
    /\ CanCall(c)
    /\ ncalls' = ncalls + 1
    /\ pc' = [pc EXCEPT ![c] = lockpc]
    /\ loc' = [loc EXCEPT ![c] = [NoLoc EXCEPT !.during = InAppend]]
    /\ ret' = NoRet
    /\ UNCHANGED << sfile, sbuf, sbufErr, ssize, sstate, sclosed, mu, appended,
                    started, sinit >>

\* s.mu.Lock() returns for caller c, who goes on at `next`.
Lock(c, lockpc, next) ==
    /\ pc[c] = lockpc
    /\ CanLock(c)
    /\ mu' = c
    /\ ret' = NoRet
    /\ pc' = [pc EXCEPT ![c] = next]

\* The caller's call returns r: the deferred Unlock runs.
Return(c, r) ==
    /\ ret' = [r EXCEPT !.during = loc[c].during]
    /\ pc' = [pc EXCEPT ![c] = "idle"]
    /\ loc' = [loc EXCEPT ![c] = NoLoc]
    /\ mu' = 0

\* A caller calls Append.
AppendCall(c) == Call(c, "append_lock")

\* Append(p), lines 64-67: take the lock and the position.
AppendBegin(c, p) ==
    /\ Lock(c, "append_lock", "append_len")
    /\ loc' = [loc EXCEPT ![c].p = p, ![c].pos = ssize]
    /\ started' = started \cup { [pos |-> ssize, p |-> p] }
    /\ UNCHANGED << sfile, sbuf, sbufErr, ssize, sstate, sclosed, appended,
                    sinit, ncalls >>

\* Append, lines 70-72: binary.Write of the length prefix.
AppendLen(c, plan) ==
    /\ pc[c] = "append_len"
    /\ LET r == BufWrite(Writer, PutUint64(Len(loc[c].p)), plan)
       IN  /\ sfile' = r.w.file /\ sbuf' = r.w.buf /\ sbufErr' = r.w.err
           /\ IF r.err # "nil"
              THEN Return(c, [NoRet EXCEPT !.op = "Append", !.p = loc[c].p,
                                           !.err = r.err])
              ELSE /\ pc' = [pc EXCEPT ![c] = "append_payload"]
                   /\ ret' = NoRet
                   /\ UNCHANGED << mu, loc >>
    /\ UNCHANGED << ssize, sstate, sclosed, appended, started, sinit, ncalls >>

\* Append, lines 74-82: write the payload, add to the size, return.
AppendPayload(c, plan) ==
    /\ pc[c] = "append_payload"
    /\ LET r == BufWrite(Writer, loc[c].p, plan)
           w == AppendCount(r.nn)
       IN  /\ sfile' = r.w.file /\ sbuf' = r.w.buf /\ sbufErr' = r.w.err
           /\ IF r.err # "nil"
              THEN /\ Return(c, [NoRet EXCEPT !.op = "Append", !.p = loc[c].p,
                                              !.err = r.err])
                   /\ UNCHANGED << ssize, appended >>
              ELSE /\ ssize' = ssize + w
                   /\ appended' = Append(appended,
                          [pos |-> loc[c].pos, n |-> w, p |-> loc[c].p, size0 |-> ssize])
                   /\ Return(c, [NoRet EXCEPT !.op = "Append", !.p = loc[c].p,
                                              !.n = w, !.pos = loc[c].pos])
    /\ UNCHANGED << sstate, sclosed, started, sinit, ncalls >>

\* The positions callers read at: where an Append has started a frame, and
\* the end of the store.
ReadPositions == { f.pos : f \in started } \cup { ssize }

\* A caller calls Read.
ReadCall(c) == Call(c, "read_lock")

\* Read(pos), lines 87-88: take the lock.
ReadBegin(c, pos) ==
    /\ Lock(c, "read_lock", "read")
    /\ loc' = [loc EXCEPT ![c].pos = pos]
    /\ UNCHANGED << sfile, sbuf, sbufErr, ssize, sstate, sclosed, appended,
                    started, sinit, ncalls >>

\* Read, lines 92-108: flush, read the length, read the payload.
ReadBody(c, plan) ==
    /\ pc[c] = "read"
    /\ LET w == ReadFlush(Writer, plan)
           r == IF w.err # "nil" THEN [data |-> << >>, err |-> w.err]
                ELSE ReadFrame(w.file, w.closed, loc[c].pos)
       IN  /\ sfile' = w.file /\ sbuf' = w.buf /\ sbufErr' = w.err
           /\ Return(c, [NoRet EXCEPT !.op = "Read", !.pos = loc[c].pos,
                                      !.data = r.data, !.err = r.err,
                                      !.seen = Len(appended), !.flen = Len(sfile)])
    /\ UNCHANGED << ssize, sstate, sclosed, appended, started, sinit, ncalls >>

\* The (length, offset) pairs callers pass to ReadAt.
ReadAtArgs == { << 4, 0 >>, << 9, 8 >> }

\* A caller calls ReadAt.
ReadAtCall(c) == Call(c, "readat_lock")

\* ReadAt(p, off) with len(p) = n, lines 112-113: take the lock.
ReadAtBegin(c, n, off) ==
    /\ Lock(c, "readat_lock", "readat")
    /\ loc' = [loc EXCEPT ![c].n = n, ![c].pos = off]
    /\ UNCHANGED << sfile, sbuf, sbufErr, ssize, sstate, sclosed, appended,
                    started, sinit, ncalls >>

\* ReadAt, lines 115-120: flush, then File.ReadAt.
ReadAtBody(c, plan) ==
    /\ pc[c] = "readat"
    /\ LET w == Flush(Writer, plan)
           r == IF w.err # "nil" THEN [data |-> << >>, err |-> w.err]
                ELSE FileReadAt(w.file, w.closed, loc[c].n, loc[c].pos)
       IN  /\ sfile' = w.file /\ sbuf' = w.buf /\ sbufErr' = w.err
           /\ Return(c, [NoRet EXCEPT !.op = "ReadAt", !.pos = loc[c].pos,
                                      !.n = Len(r.data), !.data = r.data,
                                      !.err = r.err, !.seen = Len(appended),
                                      !.flen = Len(sfile)])
    /\ UNCHANGED << ssize, sstate, sclosed, appended, started, sinit, ncalls >>

\* A caller calls Close().  Callers close a store once.
CloseCall(c) ==
    /\ ~sclosed
    /\ \A d \in Procs : pc[d] \notin {"close_lock", "close"}
    /\ Call(c, "close_lock")

\* Close, lines 125-126: take the lock.
CloseBegin(c) ==
    /\ Lock(c, "close_lock", "close")
    /\ UNCHANGED << sfile, sbuf, sbufErr, ssize, sstate, sclosed, loc, appended,
                    started, sinit, ncalls >>

\* Close, lines 128-132: flush, then close the file.
CloseBody(c, plan) ==
    /\ pc[c] = "close"
    /\ LET w == Flush(Writer, plan)
       IN  /\ sfile' = w.file /\ sbuf' = w.buf /\ sbufErr' = w.err
           /\ sclosed' = (w.err = "nil")
           /\ Return(c, [NoRet EXCEPT !.op = "Close", !.err = w.err,
                                      !.seen = Len(appended), !.flen = Len(sfile)])
    /\ UNCHANGED << ssize, sstate, appended, started, sinit, ncalls >>

\* The files of the reads at any position: a new file, and one frame whose
\* payload is eight bytes 255.
ReadFiles == { << >>, Frame([k \in 1..8 |-> 255]) }

\* Positions callers may read at besides the starts of frames: the end of
\* the store and the byte after it, the first byte of the payload of a
\* frame, and a position with fewer than 8 bytes after it.
ReadAnyPositions ==
    ReadPositions
      \cup { ssize + 1, sinit }
      \cup { f.pos + lenWidth : f \in started }
      \cup { q \in { lenWidth, ssize - 3 } : q >= 0 /\ q <= ssize }

\* No caller is inside a call.
Quiet == \A d \in Procs : pc[d] = "idle"

\* Close has been called.
Closing == sclosed \/ \E d \in Procs : pc[d] \in {"close_lock", "close"}

\* The service restarts: after Close, newStore on a new handle of the same
\* file.  The buffer of the old store is gone with it.
Reopen ==
    /\ sstate = "open"
    /\ sclosed
    /\ Quiet
    /\ sgen' = sgen + 1
    /\ ssize' = RecoveredSize(sfile)
    /\ sbuf' = << >> /\ sbufErr' = "nil"
    /\ sclosed' = FALSE
    /\ ret' = [NoRet EXCEPT !.op = "newStore", !.n = RecoveredSize(sfile),
                            !.seen = Len(appended), !.flen = Len(sfile)]
    /\ UNCHANGED << sfile, sstate, mu, pc, loc, appended, started, sinit, ncalls >>

(***************************************************************************)
(* The in-memory Log of the server package.                                *)
(***************************************************************************)
\* The values of the records callers append.
LogValues == { << 7 >>, << 9 >> }

\* The offsets callers read at.
LogOffsets == 0..MaxCalls

\* Record{}
NoRecord == [Value |-> << >>, Offset |-> 0]

NoLRet == [op |-> "none", off |-> 0, rec |-> NoRecord, err |-> "nil"]
NoLLoc == [value |-> << >>, off |-> 0]

\* NewLog()
LInit ==
    /\ lrecords = << >>
    /\ lmu = 0
    /\ lpc = [c \in Procs |-> "idle"]
    /\ lloc = [c \in Procs |-> NoLLoc]
    /\ lret = NoLRet
    /\ ldone = << >>
    /\ lcalls = 0

\* Seeded fault: Lock lets a caller in while another holds the mutex.
LogLockAlwaysFree(c) == TRUE

\* c.mu.Lock() can return for caller c.
LogCanLock(c) == lmu = 0

\* A caller calls Append or Read and arrives at c.mu.Lock().
LogCall(c, lockpc, value, off) ==
    /\ lpc[c] = "idle"
    /\ lcalls < MaxCalls
    /\ lcalls' = lcalls + 1
    /\ lpc' = [lpc EXCEPT ![c] = lockpc]
    /\ lloc' = [lloc EXCEPT ![c] = [value |-> value, off |-> off]]
    /\ lret' = NoLRet
    /\ UNCHANGED << lrecords, lmu, ldone >>

\* c.mu.Lock() returns for caller c, who goes on at `next`.
LogLock(c, lockpc, next) ==
    /\ lpc[c] = lockpc
    /\ LogCanLock(c)
    /\ lmu' = c
    /\ lpc' = [lpc EXCEPT ![c] = next]
    /\ lret' = NoLRet
    /\ UNCHANGED << lrecords, lloc, ldone, lcalls >>

\* A caller calls Append(record) with record.Value = value.
LogAppendCall(c, value) == LogCall(c, "a_lock", value, 0)

\* Append, lines 79-81.
LogAppendLock(c) == LogLock(c, "a_lock", "a_off")

\* Append, line 83: record.Offset = uint64(len(c.records)).
LogAppendOffset(c) ==
    /\ lpc[c] = "a_off"
    /\ lloc' = [lloc EXCEPT ![c].off = Len(lrecords)]
    /\ lpc' = [lpc EXCEPT ![c] = "a_put"]
    /\ lret' = NoLRet
    /\ UNCHANGED << lrecords, lmu, ldone, lcalls >>

\* Append, lines 85-86: append the record, return its offset, unlock.
LogAppendPut(c) ==
    /\ lpc[c] = "a_put"
    /\ lrecords' = Append(lrecords, [Value |-> lloc[c].value, Offset |-> lloc[c].off])
    /\ ldone' = Append(ldone, [value |-> lloc[c].value, off |-> lloc[c].off])
    /\ lret' = [NoLRet EXCEPT !.op = "Append", !.off = lloc[c].off]
    /\ lpc' = [lpc EXCEPT ![c] = "idle"]
    /\ lloc' = [lloc EXCEPT ![c] = NoLLoc]
    /\ lmu' = 0
    /\ UNCHANGED lcalls

\* A caller calls Read(offset).
LogReadCall(c, off) == LogCall(c, "r_lock", << >>, off)

\* Read, lines 91-93.
LogReadLock(c) == LogLock(c, "r_lock", "r_body")

\* Read, lines 95-99.
LogReadBody(c) ==
    /\ lpc[c] = "r_body"
    /\ lret' = IF lloc[c].off >= Len(lrecords)
               THEN [NoLRet EXCEPT !.op = "Read", !.off = lloc[c].off,
                                   !.err = "ErrOffsetNotFound"]
               ELSE [NoLRet EXCEPT !.op = "Read", !.off = lloc[c].off,
                                   !.rec = lrecords[lloc[c].off + 1]]
    /\ lpc' = [lpc EXCEPT ![c] = "idle"]
    /\ lloc' = [lloc EXCEPT ![c] = NoLLoc]
    /\ lmu' = 0
    /\ UNCHANGED << lrecords, ldone, lcalls >>

(***************************************************************************)
(* Specifications: the index alone, and the store alone.                   *)
(***************************************************************************)
\* The index alone: the store stays as it is before newStore, on a new file.
IndexInit == IInit /\ SInit /\ LInit /\ sfile = << >>

IndexNext ==
    \/ \E fault \in OpenFaults : NewIndex(fault) /\ UNCHANGED << svars, cvars, lvars >>
    \/ \E w \in WriteArgs : IndexWrite(w[1], w[2]) /\ UNCHANGED << svars, cvars, lvars >>
    \/ \E in \in ReadArgs : IndexReadOp(in) /\ UNCHANGED << svars, cvars, lvars >>
    \/ \E fault \in CloseFaults : IndexClose(fault) /\ UNCHANGED << svars, cvars, lvars >>

SpecIndex == IndexInit /\ [][IndexNext]_vars

\* The life of an index file over several instances, with no I/O failure:
\* instances are closed or the process exits, and the file is reopened with
\* the same or another MaxIndexBytes.
LifeWriteArgs == { << 0, 0 >>, << 1, 10 >> }
LifeReadArgs == { MinusOne, I64(0) }

IndexLifeNext ==
    \/ \E max \in MaxBytesChoices : NewIndexMax("none", max) /\ UNCHANGED << svars, cvars, lvars >>
    \/ \E w \in LifeWriteArgs : IndexWrite(w[1], w[2]) /\ UNCHANGED << svars, cvars, lvars >>
    \/ \E in \in LifeReadArgs : IndexReadOp(in) /\ UNCHANGED << svars, cvars, lvars >>
    \/ IndexClose("none") /\ UNCHANGED << svars, cvars, lvars >>
    \/ IndexCrash /\ UNCHANGED << svars, cvars, lvars >>

SpecIndexLife == IndexInit /\ [][IndexLifeNext]_vars

\* The index written by concurrent callers, with no I/O failure.
IndexWritersNext ==
    \/ NewIndex("none") /\ UNCHANGED << svars, cvars, lvars >>
    \/ \E c \in Procs, w \in ConcWriteArgs : CWriteCall(c, w[1], w[2]) /\ UNCHANGED << svars, lvars >>
    \/ \E c \in Procs : CWriteCheck(c) /\ UNCHANGED << svars, lvars >>
    \/ \E c \in Procs, e \in {"off", "pos", "size"} : CWriteStore(c, e) /\ UNCHANGED << svars, lvars >>

SpecIndexWriters == IndexInit /\ [][IndexWritersNext]_vars

\* The index with one caller that writes and the others reading.
Writer1 == 1
Readers == Procs \ {Writer1}

IndexReadersNext ==
    \/ NewIndex("none") /\ UNCHANGED << svars, cvars, lvars >>
    \/ \E w \in ConcWriteArgs : CWriteCall(Writer1, w[1], w[2]) /\ UNCHANGED << svars, lvars >>
    \/ CWriteCheck(Writer1) /\ UNCHANGED << svars, lvars >>
    \/ \E e \in {"off", "pos", "size"} : CWriteStore(Writer1, e) /\ UNCHANGED << svars, lvars >>
    \/ \E c \in Readers, in \in ConcReadArgs : CReadCall(c, in) /\ UNCHANGED << svars, lvars >>
    \/ \E c \in Readers : CReadCheck(c) /\ UNCHANGED << svars, lvars >>
    \/ \E c \in Readers : CReadOff(c) /\ UNCHANGED << svars, lvars >>
    \/ \E c \in Readers : CReadPos(c) /\ UNCHANGED << svars, lvars >>

SpecIndexReaders == IndexInit /\ [][IndexReadersNext]_vars

\* The store alone: the index stays as it is before newIndex.
StoreInit == SInit /\ IInit /\ LInit

StoreNext ==
    \/ NewStore /\ sgen' = 1 /\ UNCHANGED << ivars, lvars >>
    \/ \E c \in Procs : AppendCall(c) /\ UNCHANGED << ivars, sgen, lvars >>
    \/ \E c \in Procs, p \in Payloads : AppendBegin(c, p) /\ UNCHANGED << ivars, sgen, lvars >>
    \/ \E c \in Procs, plan \in FaultPlans : AppendLen(c, plan) /\ UNCHANGED << ivars, sgen, lvars >>
    \/ \E c \in Procs, plan \in FaultPlans : AppendPayload(c, plan) /\ UNCHANGED << ivars, sgen, lvars >>
    \/ \E c \in Procs : ReadCall(c) /\ UNCHANGED << ivars, sgen, lvars >>
    \/ \E c \in Procs, pos \in ReadPositions : ReadBegin(c, pos) /\ UNCHANGED << ivars, sgen, lvars >>
    \/ \E c \in Procs, plan \in FaultPlans : ReadBody(c, plan) /\ UNCHANGED << ivars, sgen, lvars >>
    \/ \E c \in Procs : ReadAtCall(c) /\ UNCHANGED << ivars, sgen, lvars >>
    \/ \E c \in Procs, a \in ReadAtArgs : ReadAtBegin(c, a[1], a[2]) /\ UNCHANGED << ivars, sgen, lvars >>
    \/ \E c \in Procs, plan \in FaultPlans : ReadAtBody(c, plan) /\ UNCHANGED << ivars, sgen, lvars >>
    \/ \E c \in Procs : CloseCall(c) /\ UNCHANGED << ivars, sgen, lvars >>
    \/ \E c \in Procs : CloseBegin(c) /\ UNCHANGED << ivars, sgen, lvars >>
    \/ \E c \in Procs, plan \in FaultPlans : CloseBody(c, plan) /\ UNCHANGED << ivars, sgen, lvars >>

SpecStore == StoreInit /\ [][StoreNext]_vars

\* The store over restarts, with no I/O failure: callers append and read,
\* Close is called once they have returned and nothing is called after it,
\* and a new store is opened on the file.
StoreRestartNext ==
    \/ NewStore /\ sgen' = 1 /\ UNCHANGED << ivars, lvars >>
    \/ \E c \in Procs : ~Closing /\ AppendCall(c) /\ UNCHANGED << ivars, sgen, lvars >>
    \/ \E c \in Procs, p \in Payloads : AppendBegin(c, p) /\ UNCHANGED << ivars, sgen, lvars >>
    \/ \E c \in Procs : AppendLen(c, "ok") /\ UNCHANGED << ivars, sgen, lvars >>
    \/ \E c \in Procs : AppendPayload(c, "ok") /\ UNCHANGED << ivars, sgen, lvars >>
    \/ \E c \in Procs : ~Closing /\ ReadCall(c) /\ UNCHANGED << ivars, sgen, lvars >>
    \/ \E c \in Procs, pos \in ReadPositions : ReadBegin(c, pos) /\ UNCHANGED << ivars, sgen, lvars >>
    \/ \E c \in Procs : ReadBody(c, "ok") /\ UNCHANGED << ivars, sgen, lvars >>
    \/ \E c \in Procs : Quiet /\ CloseCall(c) /\ UNCHANGED << ivars, sgen, lvars >>
    \/ \E c \in Procs : CloseBegin(c) /\ UNCHANGED << ivars, sgen, lvars >>
    \/ \E c \in Procs : CloseBody(c, "ok") /\ UNCHANGED << ivars, sgen, lvars >>
    \/ Reopen /\ UNCHANGED << ivars, lvars >>

SpecStoreRestart == StoreInit /\ [][StoreRestartNext]_vars

\* The store read at any position, with no I/O failure and no Close.
StoreReadInit == SInitOn(ReadFiles) /\ IInit /\ LInit

StoreReadNext ==
    \/ NewStore /\ sgen' = 1 /\ UNCHANGED << ivars, lvars >>
    \/ \E c \in Procs : AppendCall(c) /\ UNCHANGED << ivars, sgen, lvars >>
    \/ \E c \in Procs, p \in Payloads : AppendBegin(c, p) /\ UNCHANGED << ivars, sgen, lvars >>
    \/ \E c \in Procs : AppendLen(c, "ok") /\ UNCHANGED << ivars, sgen, lvars >>
    \/ \E c \in Procs : AppendPayload(c, "ok") /\ UNCHANGED << ivars, sgen, lvars >>
    \/ \E c \in Procs : ReadCall(c) /\ UNCHANGED << ivars, sgen, lvars >>
    \/ \E c \in Procs, pos \in ReadAnyPositions : ReadBegin(c, pos) /\ UNCHANGED << ivars, sgen, lvars >>
    \/ \E c \in Procs : ReadBody(c, "ok") /\ UNCHANGED << ivars, sgen, lvars >>

SpecStoreRead == StoreReadInit /\ [][StoreReadNext]_vars


\* The server's Log alone, used by concurrent callers.
LogNext ==
    \/ \E c \in Procs, v \in LogValues : LogAppendCall(c, v) /\ UNCHANGED << ivars, svars >>
    \/ \E c \in Procs : LogAppendLock(c) /\ UNCHANGED << ivars, svars >>
    \/ \E c \in Procs : LogAppendOffset(c) /\ UNCHANGED << ivars, svars >>
    \/ \E c \in Procs : LogAppendPut(c) /\ UNCHANGED << ivars, svars >>
    \/ \E c \in Procs, o \in LogOffsets : LogReadCall(c, o) /\ UNCHANGED << ivars, svars >>
    \/ \E c \in Procs : LogReadLock(c) /\ UNCHANGED << ivars, svars >>
    \/ \E c \in Procs : LogReadBody(c) /\ UNCHANGED << ivars, svars >>

LogInit == LInit /\ IInit /\ SInit /\ sfile = << >>

SpecLog == LogInit /\ [][LogNext]_vars


(***************************************************************************)
(* Properties of the store.                                                *)
(***************************************************************************)
\* The successful Appends that had returned when call result r was made.
SeenBy(r) == { appended[k] : k \in 1..r.seen }

\* The byte range [pos, pos + n) an Append reported.
Range(a) == a.pos .. (a.pos + a.n - 1)

\* C1: while no write to the file has failed and the store is not closed, a
\* Read at the position a successful Append returned gives back exactly the
\* payload appended, whatever Appends came before and whether or not the
\* frame had reached the file when the Read began.
C1_StoreRoundTrip ==
    (ret.op = "Read" /\ sbufErr = "nil" /\ ~sclosed) =>
        \A a \in SeenBy(ret) :
            a.pos = ret.pos => (ret.err = "nil" /\ ret.data = a.p)

\* After an earlier Append, a Read returned the three-byte payload of a frame
\* that was not wholly in the file when the Read began.
C1_Witness ==
    /\ ret.op = "Read" /\ ret.err = "nil"
    /\ sbufErr = "nil" /\ ~sclosed
    /\ ret.data = << 7, 9, 11 >>
    /\ ret.pos > sinit
    /\ ret.flen < ret.pos + lenWidth + 3
    /\ \E a \in SeenBy(ret) : a.pos = ret.pos /\ a.p = ret.data

\* C2: every successful Append returns 8 + len(p) bytes written and the size
\* the store had before the call; the first returns the size newStore
\* recovered (0 on an empty file) and each later one returns the position
\* of the one before it plus 8 plus the length of its payload.
C2_AppendResult ==
    /\ \A k \in 1..Len(appended) :
          /\ appended[k].n = lenWidth + Len(appended[k].p)
          /\ appended[k].pos = appended[k].size0
          /\ k = 1 => appended[k].pos = sinit
          /\ k > 1 => appended[k].pos =
                          appended[k - 1].pos + lenWidth + Len(appended[k - 1].p)
    /\ (ret.op = "Append" /\ ret.err = "nil") =>
          /\ ret.n = lenWidth + Len(ret.p)
          /\ Len(appended) >= 1
          /\ appended[Len(appended)].pos = ret.pos
          /\ appended[Len(appended)].p = ret.p
          /\ appended[Len(appended)].n = ret.n
    /\ (ret.op = "Append" /\ ret.err # "nil") => (ret.n = 0 /\ ret.pos = 0)

\* On an empty store, Append of three bytes returned (11, 0) and the next
\* Append returned position 11.
C2_Witness ==
    /\ sinit = 0
    /\ Len(appended) = 2
    /\ appended[1].p = << 7, 9, 11 >> /\ appended[1].pos = 0 /\ appended[1].n = 11
    /\ appended[2].pos = 11
    /\ ret.op = "Append" /\ ret.err = "nil" /\ ret.pos = 11

\* C9: each successful Append reports a position beyond the position plus
\* payload length of every Append that returned before it; the ranges
\* [position, position + bytesWritten) of the successful Appends are pairwise
\* disjoint and together are exactly [initial size, size).
C9_AppendOrdering ==
    /\ \A j, k \in 1..Len(appended) :
          j < k => /\ appended[k].pos > appended[j].pos + Len(appended[j].p)
                   /\ Range(appended[j]) \cap Range(appended[k]) = { }
    /\ UNION { Range(appended[k]) : k \in 1..Len(appended) } = sinit .. (ssize - 1)

\* Two calls have been made, both Appends that succeeded; the second was
\* called while the first caller was inside Append, holding the lock.
C9_Witness ==
    /\ ncalls = 2
    /\ Len(appended) = 2
    /\ ret.op = "Append" /\ ret.err = "nil" /\ ret.during
    /\ ret.pos = appended[2].pos

\* C10: a Read at a position where some Append, finished or not, has started
\* its frame returns that Append's whole payload, or an error and no bytes.
C10_NoPartialRecord ==
    ret.op = "Read" =>
        \A f \in started :
            f.pos = ret.pos =>
                \/ ret.err = "nil" /\ ret.data = f.p
                \/ ret.err # "nil" /\ ret.data = << >>

\* A Read was called at the position of a frame while the Append writing it
\* was under way, and returned the whole payload.
C10_Witness ==
    /\ ret.op = "Read" /\ ret.during
    /\ ret.err = "nil" /\ ret.data = << 7, 9, 11 >>
    /\ [pos |-> ret.pos, p |-> ret.data] \in started

\* The size the successful Appends account for: the end of the last one.
SizeAppended ==
    IF appended = << >> THEN sinit
    ELSE appended[Len(appended)].pos + appended[Len(appended)].n

\* C11: when Append has failed, size is what it was before the call (the
\* end of the last successful Append) and equals the bytes the file and the
\* write buffer hold, so that a later Append would start its frame at size.
C11_FailedAppendSize ==
    (ret.op = "Append" /\ ret.err # "nil") =>
        /\ ssize = SizeAppended
        /\ ssize = Len(sfile) + Len(sbuf)

\* C13: while no write to the file has failed and no caller is inside
\* Append, size is the length of the file plus the bytes in the write
\* buffer; in the state a successful Read, ReadAt or Close returns in, the
\* buffer is empty and size is the length of the file.
C13_StoreSizeInvariant ==
    /\ (sstate = "open" /\ sbufErr = "nil" /\ ~InAppend) =>
            ssize = Len(sfile) + Len(sbuf)
    /\ (ret.op \in {"Read", "ReadAt", "Close"} /\ ret.err = "nil") =>
            (sbuf = << >> /\ ssize = Len(sfile))

\* A Read returned successfully after moving buffered frames to the file.
C13_Witness ==
    /\ ret.op = "Read" /\ ret.err = "nil"
    /\ ret.flen < Len(sfile)
    /\ sbuf = << >> /\ ssize = Len(sfile) /\ ssize > sinit

\* What the store holds: the file, then the bytes still in the buffer.
Stored == sfile \o sbuf

\* C16: in a store opened on the file after the Appends of earlier stores
\* and their Close: newStore recovers as size the end of the last frame
\* appended, which is the length of the file; a Read at a position an Append
\* returned, before or after the restart, returns the payload appended; an
\* Append reports the position where the Append before it ended (the
\* recovered size for the first after the restart); and every frame
\* appended is stored at the position reported for it.
C16_StoreRestartRecovery ==
    sgen >= 2 =>
        /\ ret.op = "newStore" => (ssize = SizeAppended /\ ssize = Len(sfile))
        /\ ret.op = "Read" =>
              \A k \in 1..Len(appended) :
                  appended[k].pos = ret.pos =>
                      (ret.err = "nil" /\ ret.data = appended[k].p)
        /\ ret.op = "Append" =>
              /\ ret.err = "nil"
              /\ ret.pos = appended[Len(appended)].pos
              /\ Len(appended) = 1 => ret.pos = sinit
              /\ Len(appended) > 1 =>
                    ret.pos = appended[Len(appended) - 1].pos
                                + appended[Len(appended) - 1].n
        /\ \A k \in 1..Len(appended) :
              SubSeq(Stored, appended[k].pos + 1, appended[k].pos + appended[k].n)
                  = Frame(appended[k].p)

\* After an Append of three bytes, Close and a restart, the new store
\* appended again, at the recovered size.
C16_Witness ==
    /\ sgen = 2
    /\ Len(appended) = 2
    /\ appended[1].p = << 7, 9, 11 >>
    /\ ret.op = "Append" /\ ret.err = "nil"
    /\ ret.pos = sinit + lenWidth + 3
    /\ Len(sfile) = ret.pos

\* The length the 8 bytes at pos of the file announce (Huge: 2^31 or more).
Announced(pos) == Uint64(SubSeq(sfile, pos + 1, pos + lenWidth))

\* Read at pos is out of range: pos is at or past the end of the store, or
\* fewer than 8 bytes exist at pos, or the length read at pos announces more
\* bytes than exist after pos + 8.
OutOfRange(pos) ==
    \/ pos >= ssize
    \/ pos + lenWidth > ssize
    \/ Announced(pos) = Huge
    \/ pos + lenWidth + Announced(pos) > ssize

\* C17: a Read out of range returns io.EOF and no payload, and leaves size
\* as it was.
C17_ReadOutOfRange ==
    (ret.op = "Read" /\ OutOfRange(ret.pos)) =>
        /\ ret.err = "EOF"
        /\ ret.data = << >>
        /\ ssize = SizeAppended

(***************************************************************************)
(* Properties of the index.                                                *)
(***************************************************************************)
\* The bytes i.mmap covers.
Mapped == SubSeq(ifile, 1, mmapLen)
\* What Read(in) returns in the current state.
ReadNow(in) == IndexRead(isize, Mapped, in)
\* The result of reading entry i (1-based) of the entries written.
Written(i) == [out |-> entries[i].off, pos |-> entries[i].pos, err |-> "nil"]
\* The result the last Read returned.
ReadResult == [out |-> iread.out, pos |-> iread.pos, err |-> iread.err]
\* How many whole entries the index holds: size / totWidth.
Held == isize \div totWidth

\* C3: after any number of successful Writes, Read(i) returns exactly the
\* (offset, position) pair the (i+1)-th Write stored, for every entry written
\* so far; the pairs written earlier stay what they were however many Writes
\* follow (entries only grows, and every state agrees with it).
C3_IndexReadBack ==
    istate = "open" =>
        /\ \A i \in 1..Len(entries) : ReadNow(I64(i - 1)) = Written(i)
        /\ \A i \in 1..Len(entries) :
              (iread.err # "none" /\ iread.in = I64(i - 1)) => ReadResult = Written(i)

\* Three Writes with offsets 0, 1, 2 in order, then Read(0) returned the
\* first pair and the third pair holds a multi-byte position.
C3_Witness ==
    /\ istate = "open"
    /\ Len(entries) = 3
    /\ \A i \in 1..3 : entries[i].off = i - 1
    /\ entries[3].pos = 70000
    /\ iread.in = I64(0) /\ iread.err = "nil" /\ iread.out = 0 /\ iread.pos = 0

\* C4: on an index that holds n >= 1 entries, Read(-1) succeeds and returns
\* the same pair as Read(n - 1); when the size counts the entries written,
\* that pair is the most recently written one.
C4_SentinelRead ==
    (istate = "open" /\ Held >= 1) =>
        /\ ReadNow(MinusOne).err = "nil"
        /\ ReadNow(MinusOne) = ReadNow(I64(Held - 1))
        /\ isize = totWidth * Len(entries) => ReadNow(MinusOne) = Written(Len(entries))
        /\ (iread.err # "none" /\ iread.in = MinusOne) => ReadResult = ReadNow(I64(Held - 1))

\* Read(-1) after two Writes returned the second pair, (1, 10).
C4_Witness ==
    /\ istate = "open"
    /\ Len(entries) = 2 /\ isize = 2 * totWidth
    /\ iread.in = MinusOne /\ iread.err = "nil"
    /\ iread.out = 1 /\ iread.pos = 10
    /\ entries[2] = [off |-> 1, pos |-> 10]

\* C5: on an index opened on an empty file and never written, Read fails with
\* io.EOF and returns offset 0 and position 0, whatever its argument.
C5_EmptyIndexError ==
    (istate = "open" /\ opened.found = 0 /\ entries = << >>) =>
        /\ \A in \in ReadArgs : ReadNow(in) = [out |-> 0, pos |-> 0, err |-> "EOF"]
        /\ iread.err # "none" => ReadResult = [out |-> 0, pos |-> 0, err |-> "EOF"]

\* Read(0) was called on the never-written index and failed with io.EOF.
C5_Witness ==
    /\ istate = "open" /\ opened.found = 0 /\ entries = << >> /\ isize = 0
    /\ iread.in = I64(0) /\ iread.err = "EOF"

\* C6: a Write fails exactly when the index has no room for 12 more bytes; a
\* failed Write returns io.EOF and leaves the size and every byte of the file
\* as they were; on an index opened on an empty file exactly
\* MaxIndexBytes / 12 Writes succeed.
C6_CapacityLimit ==
    /\ iwrite.err = "EOF" =>
          /\ iwrite.size + totWidth > MaxIndexBytes
          /\ isize = iwrite.size
          /\ ifile = iwrite.file
    /\ iwrite.err = "nil" =>
          /\ iwrite.size + totWidth <= MaxIndexBytes
          /\ isize = iwrite.size + totWidth
    /\ iwrite.err \in {"none", "nil", "EOF"}
    /\ (istate = "open" /\ opened.found = 0) =>
          /\ Len(entries) <= MaxIndexBytes \div totWidth
          /\ isize = totWidth * Len(entries)
          /\ iwrite.err = "EOF" => Len(entries) = MaxIndexBytes \div totWidth
          /\ iwrite.err = "nil" => iwrite.size \div totWidth < MaxIndexBytes \div totWidth

\* On an index opened on an empty file, MaxIndexBytes / 12 Writes succeeded
\* and the next one failed.
C6_Witness ==
    /\ istate = "open" /\ opened.found = 0
    /\ Len(entries) = MaxIndexBytes \div totWidth
    /\ iwrite.err = "EOF"
    /\ isize = totWidth * (MaxIndexBytes \div totWidth)

\* C7 (as claimed): an index opened after n >= 1 Writes and a Close that
\* returned nil has size = 12 * n, returns the i-th pair for Read(i), the last
\* pair for Read(-1), and io.EOF for Read(n).
C7_RestartRecovery ==
    (istate = "open" /\ opened.after = "close_nil" /\ Len(entries) >= 1) =>
        /\ isize = totWidth * Len(entries)
        /\ ReadNow(MinusOne) = Written(Len(entries))
        /\ \A i \in 1..Len(entries) : ReadNow(I64(i - 1)) = Written(i)
        /\ ReadNow(I64(Len(entries))).err = "EOF"

\* C8 (as claimed): on an index that holds the n entries written, a Read
\* whose argument is neither -1 nor in 0..n-1 fails with io.EOF and returns
\* no entry.
C8_ReadPastEnd ==
    (/\ iread.err # "none"
     /\ isize = totWidth * Len(entries)
     /\ iread.in # MinusOne
     /\ iread.in \notin {I64(i) : i \in 0..(Held - 1)}) =>
        ReadResult = [out |-> 0, pos |-> 0, err |-> "EOF"]

\* C12: an open index has a size that is a multiple of 12 and no more than
\* the length of the mapped region, whatever instance left the file (closed
\* or not, with the same or another MaxIndexBytes) and whatever Writes and
\* Reads were made.
C12_IndexSizeInvariant ==
    istate = "open" => (isize % totWidth = 0 /\ isize <= mmapLen)

\* C14: Close returns nil only when the map sync, the file sync, the
\* truncation to size and the close of the file have all succeeded: a Close
\* that returned nil has truncated the file to size and closed it.
C14_CloseSurfacesFailures ==
    iclose.err = "nil" =>
        /\ iclose.truncated
        /\ iclose.fileClosed
        /\ Len(ifile) = iclose.size

\* C15: after a Close that returned nil, the file is as long as size, which
\* is 12 times the number of entries written; it holds the written entries
\* in order and nothing else, and the file handle is closed.
C15_PaddingDiscarded ==
    iclose.err = "nil" =>
        /\ iclose.size = totWidth * Len(entries)
        /\ Len(ifile) = totWidth * Len(entries)
        /\ \A k \in 1..Len(entries) :
              SubSeq(ifile, totWidth * (k - 1) + 1, totWidth * k)
                  = EntryBytes(entries[k].off, entries[k].pos)
        /\ iclose.fileClosed

\* No concurrent caller of the index is inside a call.
IndexQuiet == \A c \in Procs : ipc[c] = "idle"

\* The entries of the index (0-based) that read back as the pair written k-th.
SlotsOf(k) == { j \in 0..(Len(entries) - 1) : ReadNow(I64(j)) = Written(k) }

\* C18: when the Writes of concurrent callers have returned, the index holds
\* as many entries as Writes succeeded, and every pair written is read back
\* at an entry of its own.
C18_ConcurrentWrites ==
    (istate = "open" /\ IndexQuiet) =>
        /\ isize = totWidth * Len(entries)
        /\ \A k \in 1..Len(entries) :
              Cardinality(SlotsOf(k))
                  >= Cardinality({ m \in 1..Len(entries) : entries[m] = entries[k] })

\* The pairs of the Writes that have finished or are under way.
PairsWritten ==
    { [off |-> entries[k].off, pos |-> entries[k].pos] : k \in 1..Len(entries) }
      \cup { [off |-> iloc[c].off, pos |-> iloc[c].pos] :
                c \in { d \in Procs : ipc[d] \in {"w_check", "w_store"} } }

\* C19: with one caller writing, every Read that succeeds returns a pair
\* some finished or unfinished Write was called with, both fields from the
\* same Write.
C19_NoHalfWrittenEntry ==
    iread.err = "nil" => [off |-> iread.out, pos |-> iread.pos] \in PairsWritten

\* C20: the k-th Append to return (from 0) returned k, and the Log holds its
\* record at k with Offset = k; a Read at an offset below the number of
\* records appended returns that record as appended, and a Read at or above
\* it returns ErrOffsetNotFound and the empty record.
C20_ServerLog ==
    /\ Len(lrecords) = Len(ldone)
    /\ \A k \in 1..Len(ldone) :
          /\ ldone[k].off = k - 1
          /\ lrecords[k] = [Value |-> ldone[k].value, Offset |-> k - 1]
    /\ lret.op = "Append" => (lret.err = "nil" /\ lret.off = Len(ldone) - 1)
    /\ lret.op = "Read" =>
          IF lret.off < Len(ldone)
          THEN /\ lret.err = "nil"
               /\ lret.rec = [Value |-> ldone[lret.off + 1].value, Offset |-> lret.off]
          ELSE /\ lret.err = "ErrOffsetNotFound"
               /\ lret.rec = NoRecord

\* After two Appends of different values, a Read at offset 1 returned the
\* second record.
C20_Witness ==
    /\ Len(ldone) = 2
    /\ ldone[1].value # ldone[2].value
    /\ lret.op = "Read" /\ lret.off = 1 /\ lret.err = "nil"
    /\ lret.rec = [Value |-> ldone[2].value, Offset |-> 1]

=============================================================================
